---- MODULE Spec2Model ----
(***************************************************************************)
(* Model of src/vector.h: RawMemory<T> (a raw block and its capacity) and  *)
(* Vector<T> (a RawMemory plus the count of live elements).                *)
(*                                                                         *)
(* A block is a sequence of slots.  A slot is Raw (no object lives there), *)
(* MovedFrom (a live object that was the source of a move), DefaultVal (a  *)
(* value-initialised object) or one of Values.  C++ index i is slot i+1.   *)
(* Every public operation is one action; what can throw inside it (the     *)
(* allocation, the construction of the new element, the k-th relocation)   *)
(* is an input of the action.  An access outside a block, or the use or    *)
(* destruction of a Raw slot, is undefined behaviour: the action then      *)
(* leads to the state ub = TRUE, of which nothing more is known.           *)
(***************************************************************************)
EXTENDS Integers, Sequences, FiniteSets, TLC

\* ---- bounds of the model ------------------------------------------------
MaxTotalCap == 3   \* Spec: slots owned by both Vectors together when an operation returns
MaxCap == 4        \* SpecOne: slots owned by the one Vector when an operation returns
MaxPairCap == 4    \* SpecPair: slots owned by both Vectors together when an operation returns
MaxPush == 5       \* SpecPush: PushBack calls on the Vector constructed empty
MaxPushVal == 2    \* SpecPush: values pushed
MaxBlocks == 3     \* SpecRaw: blocks obtained from operator new
MaxRawCap == 2     \* SpecRaw: capacity a RawMemory is constructed with
MaxVal == 1        \* element values other than the default one
MaxAfterBreak == 0 \* operations started after some Vector stopped being intact

\* ---- slot contents --------------------------------------------------------
Raw == -2
MovedFrom == -1
DefaultVal == 0
Values == 1..MaxVal
Vecs == {1, 2}
Raws == {1, 2}

VARIABLES vec, traits, last, ub, afterBreak, room, pushed, raw, heap
vars == <<vec, traits, last, ub, afterBreak, room, pushed, raw, heap>>

\* ---- what the operations can be told to fail at ---------------------------
\* alloc: operator new throws; ctor: the constructor of the new element(s)
\* throws; pre / suf: the pre-th (suf-th) element relocated or copied by the
\* first (second) uninitialized_copy_n / uninitialized_move_n throws (0: none).
NoFail == [alloc |-> FALSE, ctor |-> FALSE, pre |-> 0, suf |-> 0]

\* The failures an operation is run with: A, C say whether the allocation and
\* the construction may throw, P and S which relocations may (0: none).  What
\* throws first ends the operation, but for Insert's two relocations.
FailSet(A, C, P, S) ==
    {f \in [alloc : A, ctor : C, pre : P, suf : S] :
        /\ f.alloc => ~f.ctor /\ f.pre = 0 /\ f.suf = 0
        /\ f.ctor => f.pre = 0 /\ f.suf = 0}

\* ---- RawMemory ------------------------------------------------------------
Allocate(n) == [i \in 1..n |-> Raw]

\* A RawMemory seen with its block's identity: buffer_ is the number of the
\* block (0: nullptr), heap[b] the times operator delete was given block b.
NoRawMemory == [alive |-> FALSE, buffer_ |-> 0, capacity_ |-> 0]

\* RawMemory() = default
RawMemoryDefault == [alive |-> TRUE, buffer_ |-> 0, capacity_ |-> 0]

\* explicit RawMemory(size_t capacity): Allocate(0) is nullptr.
RawMemorySized(capacity, h) ==
    [alive |-> TRUE, buffer_ |-> IF capacity # 0 THEN Len(h) + 1 ELSE 0,
     capacity_ |-> capacity]

\* What std::exchange(other.buffer_, nullptr) and
\* std::exchange(other.capacity_, 0) leave in other.
Exchanged(other) == [other EXCEPT !.buffer_ = 0, !.capacity_ = 0]

\* RawMemory(RawMemory&& other)
RawMemoryMove(other) ==
    [alive |-> TRUE, buffer_ |-> other.buffer_, capacity_ |-> other.capacity_]

\* RawMemory& operator=(RawMemory&& rhs), this != &rhs
RawMemoryMoveAssign(this, rhs) ==
    [this EXCEPT !.buffer_ = rhs.buffer_, !.capacity_ = rhs.capacity_]

\* operator delete(buf) on the heap h: deleting nullptr does nothing.
OperatorDelete(buf, h) ==
    IF buf = 0 THEN h ELSE [h EXCEPT ![buf] = h[buf] + 1]

NoVector == [alive |-> FALSE, buffer_ |-> <<>>, capacity_ |-> 0, size_ |-> 0]

\* RawMemory::Swap seen from one side: this object takes o's block and capacity.
TakeData(v, o) == [v EXCEPT !.buffer_ = o.buffer_, !.capacity_ = o.capacity_]

\* operator delete on a block: the objects still alive in it are never destroyed.
Deallocate(buf) == Cardinality({i \in 1..Len(buf) : buf[i] # Raw})

\* ---- <memory> algorithms on blocks ----------------------------------------
InBlock(buf, from, n) == from >= 0 /\ from + n <= Len(buf)
AllLive(buf, from, n) ==
    InBlock(buf, from, n) /\ \A i \in (from + 1)..(from + n) : buf[i] # Raw

\* std::destroy_n(buf + from, n)
DestroyN(buf, from, n) ==
    [i \in 1..Len(buf) |-> IF i > from /\ i <= from + n THEN Raw ELSE buf[i]]

\* The slots from..from+n-1 of buf after they were the sources of moves.
MoveOut(buf, from, n) ==
    [i \in 1..Len(buf) |-> IF i > from /\ i <= from + n THEN MovedFrom ELSE buf[i]]

\* The same slots constructed from src's in the reverse order.
ConstructReversed(src, from, n, dst, to) ==
    [i \in 1..Len(dst) |->
        IF i > to /\ i <= to + n THEN src[from + n + 1 - (i - to)] ELSE dst[i]]

\* The slots to..to+n-1 of dst constructed from src's slots from..from+n-1.
Construct(src, from, n, dst, to) ==
    [i \in 1..Len(dst) |->
        IF i > to /\ i <= to + n THEN src[i - to + from] ELSE dst[i]]

\* std::uninitialized_copy_n(src + from, n, dst + to); the failAt-th copy
\* throws (0: none), and the copies made before it are destroyed again.
UninitializedCopyN(src, from, n, dst, to, failAt) ==
    IF ~(AllLive(src, from, IF failAt \in 1..n THEN failAt ELSE n)
         /\ InBlock(dst, to, IF failAt \in 1..n THEN failAt - 1 ELSE n))
    THEN [ub |-> TRUE, threw |-> FALSE, src |-> src, dst |-> dst]
    ELSE IF failAt \in 1..n
    THEN [ub |-> FALSE, threw |-> TRUE, src |-> src,
          dst |-> DestroyN(dst, to, failAt - 1)]
    ELSE [ub |-> FALSE, threw |-> FALSE, src |-> src,
          dst |-> Construct(src, from, n, dst, to)]

\* std::uninitialized_move_n(src + from, n, dst + to): as above, and every
\* element moved before the throw is left moved-from in src.
UninitializedMoveN(src, from, n, dst, to, failAt) ==
    IF ~(AllLive(src, from, IF failAt \in 1..n THEN failAt ELSE n)
         /\ InBlock(dst, to, IF failAt \in 1..n THEN failAt - 1 ELSE n))
    THEN [ub |-> TRUE, threw |-> FALSE, src |-> src, dst |-> dst]
    ELSE IF failAt \in 1..n
    THEN [ub |-> FALSE, threw |-> TRUE, src |-> MoveOut(src, from, failAt - 1),
          dst |-> DestroyN(dst, to, failAt - 1)]
    ELSE [ub |-> FALSE, threw |-> FALSE, src |-> MoveOut(src, from, n),
          dst |-> Construct(src, from, n, dst, to)]

\* if constexpr (is_nothrow_move_constructible_v<T> || !is_copy_constructible_v<T>)
UseMove == traits.nothrow_move \/ ~traits.copyable

\* A relocation can throw unless T's move constructor is noexcept: the copy
\* branch copies, the move branch of a move-only T calls a throwing move.
RelocFail(k) == IF traits.nothrow_move THEN 0 ELSE k

\* Relocate without the if constexpr: every element type is moved.
RelocateByMove(src, from, n, dst, to, failAt) ==
    UninitializedMoveN(src, from, n, dst, to, RelocFail(failAt))

Relocate(src, from, n, dst, to, failAt) ==
    IF UseMove
    THEN UninitializedMoveN(src, from, n, dst, to, RelocFail(failAt))
    ELSE UninitializedCopyN(src, from, n, dst, to, RelocFail(failAt))

\* ---- results of an operation ---------------------------------------------
\* t: the Vector afterwards; out: "ok" (returned), "threw" (an exception left
\* the operation) or "ub"; failed: what failed inside, "none" if nothing;
\* leak: objects alive in the blocks the operation released; ret: the index
\* the returned iterator designates (-1: the operation returns none).
Result(t, out, failed, leak, ret) ==
    [t |-> t, out |-> out, failed |-> failed, leak |-> leak, ret |-> ret]
Ok(t, leak, ret) == Result(t, "ok", "none", leak, ret)
Threw(t, failed, leak) == Result(t, "threw", failed, leak, -1)
Undefined(t) == Result(t, "ub", "none", 0, -1)

\* Growth by one slot at a time.
GrownByOne(v) == v.capacity_ + 1

\* (size_ == 0) ? 1 : Capacity() * 2
GrownCapacity(v) == IF v.size_ = 0 THEN 1 ELSE v.capacity_ * 2

\* Whether allocating n slots throws: Allocate(0) does not call operator new.
AllocThrows(n, f) == f.alloc /\ n # 0

\* Whether the construction of the new element throws.  how says which
\* constructor builds it: "copy" (const T&), "move" (T&&, which cannot throw
\* when T's move constructor is noexcept) or "args" (T(args...), Emplace).
CtorThrows(how, f) == f.ctor /\ (how = "move" => ~traits.nothrow_move)

\* ---- append ---------------------------------------------------------------
\* The body shared, word for word, by EmplaceBack and both PushBack overloads.
AppendImpl(v, value, how, f) ==
    IF v.size_ = v.capacity_
    THEN IF AllocThrows(GrownCapacity(v), f) THEN Threw(v, "alloc", 0)
         ELSE IF CtorThrows(how, f) THEN Threw(v, "ctor", 0)
         ELSE LET new_data == [Allocate(GrownCapacity(v)) EXCEPT ![v.size_ + 1] = value]
                  r == Relocate(v.buffer_, 0, v.size_, new_data, 0, f.pre)
              IN IF r.ub THEN Undefined(v)
                 ELSE IF r.threw
                 THEN Threw([v EXCEPT !.buffer_ = r.src], "reloc", Deallocate(r.dst))
                 ELSE Ok([v EXCEPT !.buffer_ = r.dst,
                                   !.capacity_ = GrownCapacity(v),
                                   !.size_ = v.size_ + 1],
                         Deallocate(DestroyN(r.src, 0, v.size_)), v.size_)
    ELSE IF ~InBlock(v.buffer_, v.size_, 1) THEN Undefined(v)
         ELSE IF CtorThrows(how, f) THEN Threw(v, "ctor", 0)
         ELSE Ok([v EXCEPT !.buffer_[v.size_ + 1] = value, !.size_ = v.size_ + 1],
                 0, v.size_)

PushBack(v, value, rvalue, f) ==
    AppendImpl(v, value, IF rvalue THEN "move" ELSE "copy", f)

EmplaceBack(v, value, f) == AppendImpl(v, value, "args", f)

\* ---- insertion before an element ------------------------------------------
\* Insert / Emplace with pos != end(), the case size_ == Capacity().
InsertRealloc(v, insert_idx, value, how, f) ==
    IF AllocThrows(GrownCapacity(v), f) THEN Threw(v, "alloc", 0)
    ELSE IF CtorThrows(how, f) THEN Threw(v, "ctor", 0)
    ELSE
    LET idx_from_end == v.size_ - insert_idx
        new_data == [Allocate(GrownCapacity(v)) EXCEPT ![insert_idx + 1] = value]
        p == Relocate(v.buffer_, 0, insert_idx, new_data, 0, f.pre)
        \* catch (...) { temp_value->~T(); }
        afterPrefix == IF p.threw THEN DestroyN(p.dst, insert_idx, 1) ELSE p.dst
        s == Relocate(p.src, insert_idx, idx_from_end, afterPrefix, insert_idx + 1, f.suf)
        \* catch (...) { std::destroy_n(new_data.GetAddress(), insert_idx + 1); }
        afterSuffix == IF s.threw THEN DestroyN(s.dst, 0, insert_idx + 1) ELSE s.dst
    IN IF p.ub THEN Undefined(v)
       ELSE IF s.ub THEN Undefined(v)
       ELSE IF s.threw /\ ~AllLive(s.dst, 0, insert_idx + 1) THEN Undefined(v)
       ELSE IF ~AllLive(s.src, 0, v.size_) THEN Undefined(v)
       ELSE Result([v EXCEPT !.buffer_ = afterSuffix,
                             !.capacity_ = GrownCapacity(v),
                             !.size_ = v.size_ + 1],
                   "ok",
                   IF p.threw \/ s.threw THEN "reloc" ELSE "none",
                   Deallocate(DestroyN(s.src, 0, v.size_)),
                   insert_idx)

\* Insert / Emplace with pos != end(), the case size_ != Capacity().
InsertInPlace(v, insert_idx, value, how, f) ==
    IF CtorThrows(how, f) THEN Threw(v, "ctor", 0)
    ELSE IF ~(InBlock(v.buffer_, v.size_, 1) /\ AllLive(v.buffer_, v.size_ - 1, 1))
    THEN Undefined(v)
    ELSE IF RelocFail(f.suf) # 0 THEN Threw(v, "reloc", 0)
    ELSE IF ~AllLive(v.buffer_, insert_idx, v.size_ - insert_idx) THEN Undefined(v)
    ELSE Ok([v EXCEPT
                !.buffer_ = [i \in 1..Len(v.buffer_) |->
                    IF i = insert_idx + 1 THEN value
                    ELSE IF i > insert_idx + 1 /\ i <= v.size_ + 1 THEN v.buffer_[i - 1]
                    ELSE v.buffer_[i]],
                !.size_ = v.size_ + 1],
            0, insert_idx)

\* Insertion that ignores pos and appends.
InsertAtEnd(v, insert_idx, value, how, f) == AppendImpl(v, value, how, f)

\* Insert(pos, value) and Emplace(pos, args...), pos = begin() + insert_idx.
InsertImpl(v, insert_idx, value, how, f) ==
    IF insert_idx = v.size_ THEN AppendImpl(v, value, how, f)
    ELSE IF v.size_ = v.capacity_ THEN InsertRealloc(v, insert_idx, value, how, f)
    ELSE InsertInPlace(v, insert_idx, value, how, f)

Insert(v, insert_idx, value, rvalue, f) ==
    InsertImpl(v, insert_idx, value, IF rvalue THEN "move" ELSE "copy", f)

Emplace(v, insert_idx, value, f) == InsertImpl(v, insert_idx, value, "args", f)

\* ---- construction and destruction -----------------------------------------
\* Results of the operations on two Vectors carry s, the other Vector afterwards.
Result2(t, s, out, failed, leak, ret) ==
    [t |-> t, s |-> s, out |-> out, failed |-> failed, leak |-> leak, ret |-> ret]

\* Vector()
VectorDefault == Ok([NoVector EXCEPT !.alive = TRUE], 0, -1)

\* explicit Vector(size_t size)
VectorSized(size, f) ==
    IF AllocThrows(size, f) THEN Threw(NoVector, "alloc", 0)
    ELSE IF f.ctor /\ size > 0 THEN Threw(NoVector, "ctor", 0)
    ELSE Ok([alive |-> TRUE, buffer_ |-> [i \in 1..size |-> DefaultVal],
             capacity_ |-> size, size_ |-> size], 0, -1)

\* Vector(const Vector& other)
VectorCopy(other, f) ==
    IF AllocThrows(other.size_, f) THEN Threw(NoVector, "alloc", 0)
    ELSE LET r == UninitializedCopyN(other.buffer_, 0, other.size_,
                                     Allocate(other.size_), 0, f.pre)
         IN IF r.ub THEN Undefined(NoVector)
            ELSE IF r.threw THEN Threw(NoVector, "copy", Deallocate(r.dst))
            ELSE Ok([alive |-> TRUE, buffer_ |-> r.dst,
                     capacity_ |-> other.size_, size_ |-> other.size_], 0, -1)

\* Vector(Vector&& other): data_(other.size_), size_(other.size_), then
\* data_.Swap(other.data_) and other.size_ = 0.
VectorMove(other, f) ==
    IF AllocThrows(other.size_, f)
    THEN Result2(NoVector, other, "threw", "alloc", 0, -1)
    ELSE Result2([alive |-> TRUE, buffer_ |-> other.buffer_,
                  capacity_ |-> other.capacity_, size_ |-> other.size_],
                 [other EXCEPT !.buffer_ = Allocate(other.size_),
                               !.capacity_ = other.size_,
                               !.size_ = 0],
                 "ok", "none", 0, -1)

\* ~Vector(), then ~RawMemory()
VectorDtor(v) ==
    IF ~AllLive(v.buffer_, 0, v.size_) THEN Undefined(v)
    ELSE Ok(NoVector, Deallocate(DestroyN(v.buffer_, 0, v.size_)), -1)

\* ---- capacity and size -------------------------------------------------------
\* Reserve that destroys the elements before it allocates the new block.
ReserveDestroyFirst(v, new_capacity, f) ==
    IF new_capacity <= v.capacity_ THEN Ok(v, 0, -1)
    ELSE IF AllocThrows(new_capacity, f)
    THEN Threw([v EXCEPT !.buffer_ = DestroyN(v.buffer_, 0, v.size_), !.size_ = 0],
               "alloc", 0)
    ELSE LET r == Relocate(v.buffer_, 0, v.size_, Allocate(new_capacity), 0, f.pre)
         IN IF r.ub THEN Undefined(v)
            ELSE IF r.threw
            THEN Threw([v EXCEPT !.buffer_ = r.src], "reloc", Deallocate(r.dst))
            ELSE Ok([v EXCEPT !.buffer_ = r.dst, !.capacity_ = new_capacity],
                    Deallocate(DestroyN(r.src, 0, v.size_)), -1)

\* Reserve that allocates one slot more than it was asked for.
ReserveOneMore(v, new_capacity, f) ==
    IF new_capacity <= v.capacity_ THEN Ok(v, 0, -1)
    ELSE IF AllocThrows(new_capacity + 1, f) THEN Threw(v, "alloc", 0)
    ELSE LET r == Relocate(v.buffer_, 0, v.size_, Allocate(new_capacity + 1), 0, f.pre)
         IN IF r.ub THEN Undefined(v)
            ELSE IF r.threw
            THEN Threw([v EXCEPT !.buffer_ = r.src], "reloc", Deallocate(r.dst))
            ELSE Ok([v EXCEPT !.buffer_ = r.dst, !.capacity_ = new_capacity + 1],
                    Deallocate(DestroyN(r.src, 0, v.size_)), -1)

Reserve(v, new_capacity, f) ==
    IF new_capacity <= v.capacity_ THEN Ok(v, 0, -1)
    ELSE IF AllocThrows(new_capacity, f) THEN Threw(v, "alloc", 0)
    ELSE LET r == Relocate(v.buffer_, 0, v.size_, Allocate(new_capacity), 0, f.pre)
         IN IF r.ub THEN Undefined(v)
            ELSE IF r.threw
            THEN Threw([v EXCEPT !.buffer_ = r.src], "reloc", Deallocate(r.dst))
            ELSE Ok([v EXCEPT !.buffer_ = r.dst, !.capacity_ = new_capacity],
                    Deallocate(DestroyN(r.src, 0, v.size_)), -1)

\* Resize that, when it shrinks, lowers size_ and destroys nothing, and when
\* it grows, constructs nothing in the slots it adds.
ResizeSizeOnly(v, new_size, f) ==
    IF new_size > v.size_
    THEN LET rs == Reserve(v, new_size, f)
         IN IF rs.out # "ok" THEN rs
            ELSE Ok([rs.t EXCEPT !.size_ = new_size], rs.leak, -1)
    ELSE Ok([v EXCEPT !.size_ = new_size], 0, -1)

Resize(v, new_size, f) ==
    IF new_size > v.size_
    THEN LET rs == Reserve(v, new_size, f)
         IN IF rs.out # "ok" THEN rs
            ELSE IF f.ctor THEN Threw(rs.t, "ctor", rs.leak)
            ELSE Ok([rs.t EXCEPT
                        !.buffer_ = [i \in 1..Len(rs.t.buffer_) |->
                            IF i > v.size_ /\ i <= new_size THEN DefaultVal
                            ELSE rs.t.buffer_[i]],
                        !.size_ = new_size],
                    rs.leak, -1)
    ELSE IF new_size < v.size_
    THEN IF ~AllLive(v.buffer_, new_size, v.size_ - new_size) THEN Undefined(v)
         ELSE Ok([v EXCEPT !.buffer_ = DestroyN(v.buffer_, new_size, v.size_ - new_size),
                           !.size_ = new_size], 0, -1)
    ELSE Ok(v, 0, -1)

\* ---- removal ---------------------------------------------------------------
PopBack(v) ==
    IF ~AllLive(v.buffer_, v.size_ - 1, 1) THEN Undefined(v)
    ELSE Ok([v EXCEPT !.buffer_ = DestroyN(v.buffer_, v.size_ - 1, 1),
                      !.size_ = v.size_ - 1], 0, -1)

\* Erase that shifts nothing: it removes the last element, whatever pos is.
EraseLast(v, erase_idx) ==
    IF ~AllLive(v.buffer_, erase_idx, v.size_ - erase_idx) THEN Undefined(v)
    ELSE Ok([v EXCEPT !.buffer_ = DestroyN(v.buffer_, v.size_ - 1, 1),
                      !.size_ = v.size_ - 1], 0, erase_idx)

Erase(v, erase_idx) ==
    IF ~AllLive(v.buffer_, erase_idx, v.size_ - erase_idx) THEN Undefined(v)
    ELSE Ok([v EXCEPT
                !.buffer_ = [i \in 1..Len(v.buffer_) |->
                    IF i > erase_idx /\ i < v.size_ THEN v.buffer_[i + 1]
                    ELSE IF i = v.size_ THEN Raw
                    ELSE v.buffer_[i]],
                !.size_ = v.size_ - 1],
            0, erase_idx)

\* ---- assignment and swap -----------------------------------------------------
\* Copy-assignment that always copies and swaps, whatever the capacity.
CopyAssignBySwap(v, rhs, f) ==
    LET rhs_copy == VectorCopy(rhs, f)
    IN IF rhs_copy.out = "ub" THEN Undefined(v)
       ELSE IF rhs_copy.out = "threw" THEN Threw(v, rhs_copy.failed, rhs_copy.leak)
       ELSE IF ~AllLive(v.buffer_, 0, v.size_) THEN Undefined(v)
       ELSE Ok([TakeData(v, rhs_copy.t) EXCEPT !.size_ = rhs_copy.t.size_],
               Deallocate(DestroyN(v.buffer_, 0, v.size_)), -1)

\* Copy-assignment that, when the capacity suffices, assigns the overlapping
\* prefix only: it neither destroys the surplus nor constructs the rest.
CopyAssignPrefixOnly(v, rhs, f) ==
    IF rhs.size_ > v.capacity_ THEN CopyAssignBySwap(v, rhs, f)
    ELSE Ok([v EXCEPT
                !.buffer_ = [i \in 1..Len(v.buffer_) |->
                    IF i <= v.size_ /\ i <= rhs.size_ THEN rhs.buffer_[i]
                    ELSE v.buffer_[i]]],
            0, -1)

\* Copy-assignment that destroys the elements of the target before it builds
\* the copy of a source larger than the capacity.
CopyAssignDestroyFirst(v, rhs, f) ==
    IF rhs.size_ > v.capacity_
    THEN LET cleared == [v EXCEPT !.buffer_ = DestroyN(v.buffer_, 0, v.size_),
                                  !.size_ = 0]
             rhs_copy == VectorCopy(rhs, f)
         IN IF rhs_copy.out = "ub" THEN Undefined(v)
            ELSE IF rhs_copy.out = "threw"
            THEN Threw(cleared, rhs_copy.failed, rhs_copy.leak)
            ELSE Ok([TakeData(v, rhs_copy.t) EXCEPT !.size_ = rhs_copy.t.size_], 0, -1)
    ELSE CopyAssignPrefixOnly(v, rhs, f)

\* Vector& operator=(const Vector& rhs)
CopyAssign(v, rhs, f) ==
    IF rhs.size_ > v.capacity_
    THEN LET rhs_copy == VectorCopy(rhs, f)
         IN IF rhs_copy.out = "ub" THEN Undefined(v)
            ELSE IF rhs_copy.out = "threw" THEN Threw(v, rhs_copy.failed, rhs_copy.leak)
            ELSE IF ~AllLive(v.buffer_, 0, v.size_) THEN Undefined(v)
            ELSE Ok([TakeData(v, rhs_copy.t) EXCEPT !.size_ = rhs_copy.t.size_],
                    Deallocate(DestroyN(v.buffer_, 0, v.size_)), -1)
    ELSE IF rhs.size_ < v.size_
    THEN IF ~(AllLive(rhs.buffer_, 0, rhs.size_) /\ AllLive(v.buffer_, 0, v.size_))
         THEN Undefined(v)
         ELSE Ok([v EXCEPT
                     !.buffer_ = [i \in 1..Len(v.buffer_) |->
                         IF i <= rhs.size_ THEN rhs.buffer_[i]
                         ELSE IF i <= v.size_ THEN Raw
                         ELSE v.buffer_[i]],
                     !.size_ = rhs.size_],
                 0, -1)
    ELSE IF ~(AllLive(rhs.buffer_, 0, v.size_) /\ AllLive(v.buffer_, 0, v.size_))
         THEN Undefined(v)
         ELSE LET assigned == [i \in 1..Len(v.buffer_) |->
                                  IF i <= v.size_ THEN rhs.buffer_[i] ELSE v.buffer_[i]]
                  r == UninitializedCopyN(rhs.buffer_, v.size_, rhs.size_ - v.size_,
                                          assigned, v.size_, f.pre)
              IN IF r.ub THEN Undefined(v)
                 ELSE IF r.threw THEN Threw([v EXCEPT !.buffer_ = r.dst], "copy", 0)
                 ELSE Ok([v EXCEPT !.buffer_ = r.dst, !.size_ = rhs.size_], 0, -1)

\* Vector& operator=(Vector&& rhs): data_.Swap(rhs.data_); rhs.size_ = 0;
MoveAssign(v, rhs) ==
    Result2(TakeData(v, rhs),
            [TakeData(rhs, v) EXCEPT !.size_ = 0],
            "ok", "none", 0, -1)

\* void Swap(Vector& other)
Swap(v, other) ==
    Result2([TakeData(v, other) EXCEPT !.size_ = other.size_],
            [TakeData(other, v) EXCEPT !.size_ = v.size_],
            "ok", "none", 0, -1)

\* ---- the state machine --------------------------------------------------------
Traits == [nothrow_move : BOOLEAN, copyable : BOOLEAN]

\* The invariant of Vector: size_ <= capacity_, objects live in the slots
\* [0, size_) and nowhere else in the block.
Intact(v) ==
    /\ v.size_ <= v.capacity_
    /\ Len(v.buffer_) = v.capacity_
    /\ \A i \in 1..Len(v.buffer_) : (v.buffer_[i] # Raw) <=> (i <= v.size_)

AllIntact == \A t \in Vecs : Intact(vec[t])

\* What is known of the last operation: its name, the Vector it was called on
\* (tgt), its other Vector (src, 0 if none), the index of its position argument
\* (pos, -1 if none), the element value it was given (val, Raw if none), the
\* size or capacity it was given (n, -1 if none), what Result says of it, and
\* the Capacity() and Size() of tgt when it was called (cap0, size0).
NoOp == [op |-> "none", tgt |-> 0, src |-> 0, pos |-> -1, val |-> Raw, n |-> -1,
         out |-> "ok", failed |-> "none", leak |-> 0, ret |-> -1,
         cap0 |-> 0, size0 |-> 0]

Init ==
    /\ vec = [i \in Vecs |-> NoVector]
    /\ traits \in Traits
    /\ last = NoOp
    /\ ub = FALSE
    /\ afterBreak = 0
    /\ pushed = <<>>
    /\ raw = [i \in Raws |-> NoRawMemory]
    /\ heap = <<>>
    /\ room = MaxTotalCap

\* A program that uses one Vector only.
InitOne ==
    /\ vec = [i \in Vecs |-> NoVector]
    /\ traits \in Traits
    /\ last = NoOp
    /\ ub = FALSE
    /\ afterBreak = 0
    /\ pushed = <<>>
    /\ raw = [i \in Raws |-> NoRawMemory]
    /\ heap = <<>>
    /\ room = MaxCap

\* A program that fills, resizes and copies two Vectors.
InitPair ==
    /\ vec = [i \in Vecs |-> NoVector]
    /\ traits \in Traits
    /\ last = NoOp
    /\ ub = FALSE
    /\ afterBreak = 0
    /\ pushed = <<>>
    /\ raw = [i \in Raws |-> NoRawMemory]
    /\ heap = <<>>
    /\ room = MaxPairCap

TotalCap(vs) == vs[1].capacity_ + vs[2].capacity_

\* A failure is injected only where the operation meets it.
Effective(f, r) ==
    \/ r.out = "ub"
    \/ /\ f.alloc => r.failed = "alloc"
       /\ f.ctor => r.failed = "ctor"
       /\ (f.pre # 0 \/ f.suf # 0) => r.failed \in {"reloc", "copy"}

\* The operation op(t, s, pos, val, n), run with the failures f, ended with
\* result r and leaves the Vectors as in after.
Finish(op, t, s, pos, val, n, f, r, after) ==
    /\ Effective(f, r)
    /\ TotalCap(after) <= room
    /\ AllIntact \/ afterBreak < MaxAfterBreak
    /\ afterBreak' = IF AllIntact THEN afterBreak ELSE afterBreak + 1
    /\ vec' = IF r.out = "ub" THEN vec ELSE after
    /\ last' = [op |-> op, tgt |-> t, src |-> s, pos |-> pos, val |-> val,
                n |-> n, out |-> r.out,
                failed |-> r.failed, leak |-> r.leak, ret |-> r.ret,
                cap0 |-> vec[t].capacity_, size0 |-> vec[t].size_]
    /\ ub' = (r.out = "ub")
    /\ UNCHANGED <<traits, room, pushed, raw, heap>>

Finish1(op, t, pos, f, r) ==
    Finish(op, t, 0, pos, Raw, -1, f, r, [vec EXCEPT ![t] = r.t])
Finish2(op, t, s, f, r) ==
    Finish(op, t, s, -1, Raw, -1, f, r, [[vec EXCEPT ![t] = r.t] EXCEPT ![s] = r.s])
\* Operations given an element value, and operations given a size or capacity.
FinishVal(op, t, pos, val, f, r) ==
    Finish(op, t, 0, pos, val, -1, f, r, [vec EXCEPT ![t] = r.t])
FinishN(op, t, n, f, r) ==
    Finish(op, t, 0, -1, Raw, n, f, r, [vec EXCEPT ![t] = r.t])

Alive(t) == ~ub /\ vec[t].alive
Fresh(t) == ~ub /\ ~vec[t].alive

\* The relocations, out of n, that can be told to throw.
RelocFails(n) == IF traits.nothrow_move THEN {0} ELSE 0..n

DoVectorDefault(t) == Fresh(t) /\ Finish1("Vector", t, -1, NoFail, VectorDefault)

DoVectorSized(t) ==
    /\ Fresh(t)
    /\ \E size \in 0..room, f \in FailSet(BOOLEAN, BOOLEAN, {0}, {0}) :
          FinishN("VectorSized", t, size, f, VectorSized(size, f))

DoVectorCopy(t, s) ==
    /\ Fresh(t) /\ Alive(s) /\ traits.copyable
    /\ \E f \in FailSet(BOOLEAN, {FALSE}, 0..vec[s].size_, {0}) :
          Finish("VectorCopy", t, s, -1, Raw, -1, f, VectorCopy(vec[s], f),
                 [vec EXCEPT ![t] = VectorCopy(vec[s], f).t])

DoVectorMove(t, s) ==
    /\ Fresh(t) /\ Alive(s)
    /\ \E f \in FailSet(BOOLEAN, {FALSE}, {0}, {0}) :
          Finish2("VectorMove", t, s, f, VectorMove(vec[s], f))

DoVectorDtor(t) == Alive(t) /\ Finish1("~Vector", t, -1, NoFail, VectorDtor(vec[t]))

DoPushBack(t) ==
    /\ Alive(t)
    /\ \E value \in Values, rvalue \in BOOLEAN,
          f \in FailSet(BOOLEAN, BOOLEAN, RelocFails(vec[t].size_), {0}) :
          /\ ~rvalue => traits.copyable
          /\ FinishVal("PushBack", t, -1, value, f, PushBack(vec[t], value, rvalue, f))

DoEmplaceBack(t) ==
    /\ Alive(t)
    /\ \E value \in Values \cup {DefaultVal},
          f \in FailSet(BOOLEAN, BOOLEAN, RelocFails(vec[t].size_), {0}) :
          FinishVal("EmplaceBack", t, -1, value, f, EmplaceBack(vec[t], value, f))

DoInsert(t) ==
    /\ Alive(t)
    /\ \E insert_idx \in 0..vec[t].size_, value \in Values, rvalue \in BOOLEAN :
       \E f \in FailSet(BOOLEAN, BOOLEAN, RelocFails(insert_idx),
                        RelocFails(vec[t].size_ - insert_idx)) :
          /\ ~rvalue => traits.copyable
          /\ FinishVal("Insert", t, insert_idx, value, f,
                       Insert(vec[t], insert_idx, value, rvalue, f))

DoEmplace(t) ==
    /\ Alive(t)
    /\ \E insert_idx \in 0..vec[t].size_, value \in Values \cup {DefaultVal} :
       \E f \in FailSet(BOOLEAN, BOOLEAN, RelocFails(insert_idx),
                        RelocFails(vec[t].size_ - insert_idx)) :
          FinishVal("Emplace", t, insert_idx, value, f,
                       Emplace(vec[t], insert_idx, value, f))

DoPopBack(t) ==
    /\ Alive(t) /\ vec[t].size_ > 0
    /\ Finish1("PopBack", t, -1, NoFail, PopBack(vec[t]))

DoErase(t) ==
    /\ Alive(t)
    /\ \E erase_idx \in 0..(vec[t].size_ - 1) :
          Finish1("Erase", t, erase_idx, NoFail, Erase(vec[t], erase_idx))

DoReserve(t) ==
    /\ Alive(t)
    /\ \E new_capacity \in 0..room,
          f \in FailSet(BOOLEAN, {FALSE}, RelocFails(vec[t].size_), {0}) :
          FinishN("Reserve", t, new_capacity, f, Reserve(vec[t], new_capacity, f))

DoResize(t) ==
    /\ Alive(t)
    /\ \E new_size \in 0..room,
          f \in FailSet(BOOLEAN, BOOLEAN, RelocFails(vec[t].size_), {0}) :
          FinishN("Resize", t, new_size, f, Resize(vec[t], new_size, f))

DoCopyAssign(t, s) ==
    /\ Alive(t) /\ Alive(s) /\ traits.copyable
    /\ \E f \in FailSet(BOOLEAN, {FALSE}, 0..vec[s].size_, {0}) :
          Finish("CopyAssign", t, s, -1, Raw, -1, f, CopyAssign(vec[t], vec[s], f),
                 [vec EXCEPT ![t] = CopyAssign(vec[t], vec[s], f).t])

DoMoveAssign(t, s) ==
    /\ Alive(t) /\ Alive(s)
    /\ Finish2("MoveAssign", t, s, NoFail, MoveAssign(vec[t], vec[s]))

DoSwap(t, s) ==
    /\ Alive(t) /\ Alive(s)
    /\ Finish2("Swap", t, s, NoFail, Swap(vec[t], vec[s]))

Next ==
    \/ \E t \in Vecs : DoVectorDefault(t)
    \/ \E t \in Vecs : DoVectorSized(t)
    \/ \E t, s \in Vecs : DoVectorCopy(t, s)
    \/ \E t, s \in Vecs : DoVectorMove(t, s)
    \/ \E t \in Vecs : DoVectorDtor(t)
    \/ \E t \in Vecs : DoPushBack(t)
    \/ \E t \in Vecs : DoEmplaceBack(t)
    \/ \E t \in Vecs : DoInsert(t)
    \/ \E t \in Vecs : DoEmplace(t)
    \/ \E t \in Vecs : DoPopBack(t)
    \/ \E t \in Vecs : DoErase(t)
    \/ \E t \in Vecs : DoReserve(t)
    \/ \E t \in Vecs : DoResize(t)
    \/ \E t, s \in Vecs : DoCopyAssign(t, s)
    \/ \E t, s \in Vecs : DoMoveAssign(t, s)
    \/ \E t, s \in Vecs : DoSwap(t, s)

Spec == Init /\ [][Next]_vars

NextOne ==
    \/ DoVectorDefault(1)
    \/ DoVectorSized(1)
    \/ DoVectorDtor(1)
    \/ DoPushBack(1)
    \/ DoEmplaceBack(1)
    \/ DoInsert(1)
    \/ DoEmplace(1)
    \/ DoPopBack(1)
    \/ DoErase(1)
    \/ DoReserve(1)
    \/ DoResize(1)
    \/ DoCopyAssign(1, 1)
    \/ DoMoveAssign(1, 1)
    \/ DoSwap(1, 1)

SpecOne == InitOne /\ [][NextOne]_vars

NextPair ==
    \/ \E t \in Vecs : DoVectorDefault(t)
    \/ \E t \in Vecs : DoVectorSized(t)
    \/ \E t, s \in Vecs : DoVectorCopy(t, s)
    \/ \E t \in Vecs : DoVectorDtor(t)
    \/ \E t \in Vecs : DoPushBack(t)
    \/ \E t \in Vecs : DoInsert(t)
    \/ \E t \in Vecs : DoResize(t)
    \/ \E t, s \in Vecs : DoCopyAssign(t, s)

SpecPair == InitPair /\ [][NextPair]_vars

\* A program that constructs an empty Vector and calls PushBack on it, again
\* and again, every call returning: pushed is the sequence of the values it
\* has pushed.
InitPush ==
    /\ vec = [i \in Vecs |-> IF i = 1 THEN VectorDefault.t ELSE NoVector]
    /\ traits \in Traits
    /\ last = NoOp
    /\ ub = FALSE
    /\ afterBreak = 0
    /\ pushed = <<>>
    /\ raw = [i \in Raws |-> NoRawMemory]
    /\ heap = <<>>
    /\ room = 2 * MaxPush

PushBackAgain ==
    /\ ~ub /\ Len(pushed) < MaxPush
    /\ \E value \in 1..MaxPushVal, rvalue \in BOOLEAN :
          LET r == PushBack(vec[1], value, rvalue, NoFail)
          IN /\ ~rvalue => traits.copyable
             /\ vec' = IF r.out = "ub" THEN vec ELSE [vec EXCEPT ![1] = r.t]
             /\ pushed' = Append(pushed, value)
             /\ last' = [op |-> "PushBack", tgt |-> 1, src |-> 0, pos |-> -1,
                         val |-> value, n |-> -1, out |-> r.out,
                         failed |-> r.failed, leak |-> r.leak, ret |-> r.ret,
                         cap0 |-> vec[1].capacity_, size0 |-> vec[1].size_]
             /\ ub' = (r.out = "ub")
             /\ UNCHANGED <<traits, room, afterBreak, raw, heap>>

SpecPush == InitPush /\ [][PushBackAgain]_vars

\* A program that uses RawMemory objects only.
InitRaw ==
    /\ vec = [i \in Vecs |-> NoVector]
    /\ traits = [nothrow_move |-> TRUE, copyable |-> TRUE]
    /\ last = NoOp
    /\ ub = FALSE
    /\ afterBreak = 0
    /\ pushed = <<>>
    /\ raw = [i \in Raws |-> NoRawMemory]
    /\ heap = <<>>
    /\ room = 0

VectorsUnchanged == UNCHANGED <<vec, traits, last, ub, afterBreak, room, pushed>>

DoRawMemoryDefault(i) ==
    /\ ~raw[i].alive
    /\ raw' = [raw EXCEPT ![i] = RawMemoryDefault]
    /\ UNCHANGED heap
    /\ VectorsUnchanged

\* When operator new throws, no object is constructed.
DoRawMemorySized(i) ==
    /\ ~raw[i].alive
    /\ \E capacity \in 0..MaxRawCap, throws \in BOOLEAN :
          /\ capacity # 0 => Len(heap) < MaxBlocks
          /\ IF throws /\ capacity # 0
             THEN UNCHANGED <<raw, heap>>
             ELSE /\ raw' = [raw EXCEPT ![i] = RawMemorySized(capacity, heap)]
                  /\ heap' = IF capacity # 0 THEN Append(heap, 0) ELSE heap
    /\ VectorsUnchanged

DoRawMemoryMove(i, j) ==
    /\ ~raw[i].alive /\ raw[j].alive
    /\ raw' = [raw EXCEPT ![i] = RawMemoryMove(raw[j]), ![j] = Exchanged(raw[j])]
    /\ UNCHANGED heap
    /\ VectorsUnchanged

DoRawMemoryMoveAssign(i, j) ==
    /\ raw[i].alive /\ raw[j].alive
    /\ raw' = IF i = j THEN raw
              ELSE [raw EXCEPT ![i] = RawMemoryMoveAssign(raw[i], raw[j]),
                               ![j] = Exchanged(raw[j])]
    /\ UNCHANGED heap
    /\ VectorsUnchanged

DoRawMemorySwap(i, j) ==
    /\ raw[i].alive /\ raw[j].alive
    /\ raw' = [raw EXCEPT ![i] = raw[j], ![j] = raw[i]]
    /\ UNCHANGED heap
    /\ VectorsUnchanged

DoRawMemoryDtor(i) ==
    /\ raw[i].alive
    /\ heap' = OperatorDelete(raw[i].buffer_, heap)
    /\ raw' = [raw EXCEPT ![i] = NoRawMemory]
    /\ VectorsUnchanged

NextRaw ==
    \/ \E i \in Raws : DoRawMemoryDefault(i)
    \/ \E i \in Raws : DoRawMemorySized(i)
    \/ \E i, j \in Raws : DoRawMemoryMove(i, j)
    \/ \E i, j \in Raws : DoRawMemoryMoveAssign(i, j)
    \/ \E i, j \in Raws : DoRawMemorySwap(i, j)
    \/ \E i \in Raws : DoRawMemoryDtor(i)

SpecRaw == InitRaw /\ [][NextRaw]_vars

\* ---- properties ---------------------------------------------------------------
\* The last operation returned and nothing failed inside it.
Succeeded == last.out = "ok" /\ last.failed = "none"

\* The operations that change the Vector they are called on and may grow it.
Growers == {"PushBack", "EmplaceBack", "Insert", "Emplace", "Reserve", "Resize",
            "CopyAssign"}
Mutators == Growers \cup {"PopBack", "Erase"}

\* C1: after an operation that completed successfully, every Vector has
\* 0 <= Size() <= Capacity().
C1_SizeWithinCapacity ==
    Succeeded =>
        \A t \in Vecs : vec[t].alive =>
            0 <= vec[t].size_ /\ vec[t].size_ <= vec[t].capacity_

\* C2: after an operation that completed successfully, every Vector's block
\* holds a live element in each slot of [0, size) and in no slot of
\* [size, capacity), and a destructor leaves no element of its block alive.
C2_LiveElementsExactlyInRange ==
    Succeeded =>
        /\ \A t \in Vecs : Intact(vec[t])
        /\ last.op = "~Vector" => last.leak = 0

\* C3: dst = std::move(src) for two distinct Vectors leaves src with size 0 and
\* dst with src's prior size and src's prior elements, in order.
C3_MoveAssignTransfersContent ==
    [][(last'.op = "MoveAssign" /\ last'.tgt # last'.src) =>
          LET dst == last'.tgt
              src == last'.src
          IN /\ vec'[src].size_ = 0
             /\ vec'[dst].size_ = vec[src].size_
             /\ \A i \in 1..vec[src].size_ :
                   vec'[dst].buffer_[i] = vec[src].buffer_[i]]_vars

\* C4: Vector dst(std::move(src)) gives dst src's prior size and elements, in
\* order, and leaves src with Size() == 0 and Capacity() == 0.
C4_MoveConstructionEmptiesSource ==
    [][(last'.op = "VectorMove" /\ last'.out = "ok") =>
          LET dst == last'.tgt
              src == last'.src
          IN /\ vec'[dst].size_ = vec[src].size_
             /\ \A i \in 1..vec[src].size_ :
                   vec'[dst].buffer_[i] = vec[src].buffer_[i]
             /\ vec'[src].size_ = 0
             /\ vec'[src].capacity_ = 0]_vars

\* C5: when a relocation fails in Insert or Emplace before an element of a
\* full Vector (pos != end(), size == capacity), the Vector's size, capacity
\* and elements are afterwards what they were before the call.
C5_InsertFailureLeavesVectorUnchanged ==
    [][(/\ last'.op \in {"Insert", "Emplace"}
        /\ last'.pos # vec[last'.tgt].size_
        /\ vec[last'.tgt].size_ = vec[last'.tgt].capacity_
        /\ last'.failed = "reloc") => vec' = vec]_vars

\* C6: an operation inside which an allocation or a construction failed ends
\* by reporting the failure; it never returns normally.
C6_NoFailureIsDiscarded == last.failed # "none" => last.out = "threw"

\* C7 as stated: when the construction of the new element or a relocation fails
\* in PushBack or EmplaceBack on a full Vector, the failure propagates and the
\* Vector's size, capacity and elements are what they were before the call.
C7_AppendFailureLeavesVectorUnchanged ==
    [][(/\ last'.op \in {"PushBack", "EmplaceBack"}
        /\ vec[last'.tgt].size_ = vec[last'.tgt].capacity_
        /\ last'.failed \in {"ctor", "reloc"})
       => (last'.out = "threw" /\ vec' = vec)]_vars

\* C7 as amended: the same, for an element type that is copy constructible or
\* whose move constructor cannot throw.
C7_AppendFailureLeavesCopyableUnchanged ==
    [][(/\ last'.op \in {"PushBack", "EmplaceBack"}
        /\ vec[last'.tgt].size_ = vec[last'.tgt].capacity_
        /\ last'.failed \in {"ctor", "reloc"}
        /\ (traits.copyable \/ traits.nothrow_move))
       => (last'.out = "threw" /\ vec' = vec)]_vars

\* A PushBack on a full Vector of two or more copyable elements threw out of
\* the relocation.
C7_Witness ==
    /\ last.op = "PushBack" /\ last.failed = "reloc" /\ last.out = "threw"
    /\ traits.copyable
    /\ vec[last.tgt].size_ >= 2

\* C8: when the relocation fails in PushBack or EmplaceBack on a full Vector,
\* the new element is destroyed before the new block is released: no live
\* element is left in the released block.
C8_NewElementDestroyedOnFailure ==
    (/\ last.op \in {"PushBack", "EmplaceBack"}
     /\ last.failed = "reloc"
     /\ last.out = "threw") => last.leak = 0

\* C9: when the allocation of the new block fails in PushBack, EmplaceBack,
\* Insert, Emplace, Reserve, Resize or copy-assignment, the failure propagates
\* and every Vector's size, capacity and elements are what they were.
C9_AllocFailureLeavesVectorUnchanged ==
    [][(last'.op \in Growers /\ last'.failed = "alloc")
       => (last'.out = "threw" /\ vec' = vec)]_vars

\* A copy-assignment into a Vector that holds elements threw out of the
\* allocation of the copy's block.
C9_Witness ==
    /\ last.op = "CopyAssign" /\ last.failed = "alloc" /\ last.out = "threw"
    /\ vec[last.tgt].size_ > 0

\* C10 as stated: no operation, move-assignment and Swap included, leaves the
\* capacity of the Vector it is applied to smaller than it was.
C10_CapacityNeverDecreases ==
    [][(last'.op \in Mutators \cup {"MoveAssign", "Swap"} /\ last'.out # "ub")
       => vec'[last'.tgt].capacity_ >= vec[last'.tgt].capacity_]_vars

\* C10 as amended: no operation other than move-assignment and Swap, which
\* exchange the blocks of two Vectors, leaves the capacity of the Vector it is
\* applied to smaller than it was.
C10_CapacityNeverDecreasesButBySwap ==
    [][(last'.op \in Mutators /\ last'.out # "ub")
       => vec'[last'.tgt].capacity_ >= vec[last'.tgt].capacity_]_vars

\* A copy-assignment from a smaller Vector returned and left the target with
\* more capacity than the source has elements.
C10_Witness ==
    /\ last.op = "CopyAssign" /\ last.out = "ok" /\ last.tgt # last.src
    /\ vec[last.tgt].capacity_ > vec[last.src].size_
    /\ vec[last.tgt].capacity_ >= 2

C12_InsertPlacesValueAtPosition ==
    [][(last'.op \in {"Insert", "Emplace"} /\ last'.out = "ok" /\ last'.failed = "none")
       => LET i == last'.pos
              old == vec[last'.tgt]
              new == vec'[last'.tgt]
          IN /\ new.size_ = old.size_ + 1
             /\ \A j \in 1..i : new.buffer_[j] = old.buffer_[j]
             /\ new.buffer_[i + 1] = last'.val
             /\ \A j \in (i + 1)..old.size_ : new.buffer_[j + 1] = old.buffer_[j]
             /\ last'.ret = i]_vars

\* An Insert between the two elements of a full Vector returned: the value
\* stands at index 1 of a block twice as large, between two default elements.
C12_Witness ==
    /\ last.op = "Insert" /\ last.out = "ok" /\ last.failed = "none"
    /\ last.pos = 1 /\ last.size0 = 2 /\ last.cap0 = 2
    /\ vec[last.tgt].capacity_ = 4
    /\ vec[last.tgt].buffer_ = <<DefaultVal, last.val, DefaultVal, Raw>>

\* C13: a copy-assignment dst = src inside which nothing failed leaves dst with
\* src's size and src's elements, in order, and src as it was; when src's size
\* is at most dst's prior capacity, dst keeps its capacity and no block is
\* released; when dst and src are the same Vector it is left as it was.
C13_CopyAssignCopiesSource ==
    [][(last'.op = "CopyAssign" /\ last'.out = "ok" /\ last'.failed = "none")
       => LET dst == last'.tgt
              src == last'.src
          IN /\ vec'[dst].size_ = vec[src].size_
             /\ \A i \in 1..vec[src].size_ :
                   vec'[dst].buffer_[i] = vec[src].buffer_[i]
             /\ dst # src => vec'[src] = vec[src]
             /\ vec[src].size_ <= vec[dst].capacity_ =>
                   /\ vec'[dst].capacity_ = vec[dst].capacity_
                   /\ Len(vec'[dst].buffer_) = Len(vec[dst].buffer_)
             /\ dst = src => vec' = vec]_vars

\* A copy-assignment from a Vector of two elements into another Vector that
\* held one element in a block of two slots returned, and the two elements
\* have different values.
C13_Witness ==
    /\ last.op = "CopyAssign" /\ last.out = "ok" /\ last.tgt # last.src
    /\ last.size0 = 1 /\ last.cap0 = 2
    /\ vec[last.src].size_ = 2
    /\ vec[last.tgt].capacity_ = 2
    /\ vec[last.src].buffer_[1] # vec[last.src].buffer_[2]

\* C14: when the allocation or the copy of an element fails in a
\* copy-assignment from a source larger than the target's capacity, the
\* failure propagates and both Vectors are left exactly as they were.
C14_CopyAssignFailureLeavesBothUnchanged ==
    [][(/\ last'.op = "CopyAssign"
        /\ vec[last'.src].size_ > vec[last'.tgt].capacity_
        /\ last'.failed \in {"alloc", "copy"})
       => (last'.out = "threw" /\ vec' = vec)]_vars

\* A copy-assignment from a Vector of two elements into a Vector that holds
\* one element in a block of one slot threw out of the copy of an element.
C14_Witness ==
    /\ last.op = "CopyAssign" /\ last.out = "threw" /\ last.failed = "copy"
    /\ last.tgt # last.src
    /\ vec[last.src].size_ = 2
    /\ vec[last.tgt].size_ = 1 /\ vec[last.tgt].capacity_ = 1

\* C15: after N PushBack calls on a Vector constructed empty, Size() is N and
\* the element at index i is the i-th value pushed, for every i < N.
C15_PushBackKeepsInsertionOrder ==
    /\ ~ub
    /\ vec[1].size_ = Len(pushed)
    /\ \A i \in 1..Len(pushed) : vec[1].buffer_[i] = pushed[i]

\* Five values, not all the same, were pushed: the fifth PushBack found the
\* block of four slots full and moved the elements to a block of eight.
C15_Witness ==
    /\ Len(pushed) = 5 /\ pushed[1] # pushed[2] /\ pushed[4] # pushed[5]
    /\ last.op = "PushBack" /\ last.out = "ok"
    /\ last.cap0 = 4 /\ vec[1].capacity_ = 8

\* C16: Erase at index i removes exactly that element: the elements before it
\* keep their index, every element after it moves one index down, the size
\* is smaller by exactly 1, the capacity is unchanged and the returned
\* iterator designates index i (end() when the last element was erased).
C16_EraseRemovesOneElement ==
    [][(last'.op = "Erase" /\ last'.out = "ok")
       => LET i == last'.pos
              old == vec[last'.tgt]
              new == vec'[last'.tgt]
          IN /\ new.size_ = old.size_ - 1
             /\ \A j \in 1..i : new.buffer_[j] = old.buffer_[j]
             /\ \A j \in (i + 2)..old.size_ : new.buffer_[j - 1] = old.buffer_[j]
             /\ \A j \in (new.size_ + 1)..new.capacity_ : new.buffer_[j] = Raw
             /\ new.capacity_ = old.capacity_
             /\ last'.ret = i
             /\ i = old.size_ - 1 => last'.ret = new.size_]_vars

\* The first of three elements was erased: the two that followed it, of
\* different values, are now at the indices 0 and 1.
C16_Witness ==
    /\ last.op = "Erase" /\ last.out = "ok"
    /\ last.pos = 0 /\ last.size0 = 3
    /\ vec[last.tgt].size_ = 2
    /\ vec[last.tgt].buffer_[1] = 1 /\ vec[last.tgt].buffer_[2] = DefaultVal

\* C17: Reserve(n) with n <= Capacity() returns and changes nothing; a
\* Reserve(n) with n > Capacity() that returns leaves the capacity equal to n
\* and the size and the elements at [0, size) as they were.
C17_ReserveChangesCapacityOnly ==
    [][(last'.op = "Reserve")
       => LET old == vec[last'.tgt]
              new == vec'[last'.tgt]
          IN /\ last'.n <= old.capacity_ => (last'.out = "ok" /\ vec' = vec)
             /\ (last'.n > old.capacity_ /\ last'.out = "ok") =>
                   /\ new.capacity_ = last'.n
                   /\ Len(new.buffer_) = last'.n
                   /\ new.size_ = old.size_
                   /\ \A i \in 1..old.size_ : new.buffer_[i] = old.buffer_[i]]_vars

\* Reserve(4) on a full Vector of two elements of different values returned.
C17_Witness ==
    /\ last.op = "Reserve" /\ last.out = "ok"
    /\ last.n = 4 /\ last.cap0 = 2 /\ last.size0 = 2
    /\ vec[last.tgt].capacity_ = 4
    /\ vec[last.tgt].buffer_ = <<DefaultVal, 1, Raw, Raw>>

\* C18: a Resize(n) that returns leaves Size() == n and the elements at
\* [0, min(n, old size)) as they were; when n > old size the elements at
\* [old size, n) are default-constructed values; when n < old size the
\* elements at [n, old size) are destroyed and the capacity is unchanged;
\* when n == old size nothing changes.
C18_ResizeSetsSize ==
    [][(last'.op = "Resize" /\ last'.out = "ok")
       => LET n == last'.n
              old == vec[last'.tgt]
              new == vec'[last'.tgt]
          IN /\ new.size_ = n
             /\ \A i \in 1..(IF n < old.size_ THEN n ELSE old.size_) :
                   new.buffer_[i] = old.buffer_[i]
             /\ n > old.size_ =>
                   \A i \in (old.size_ + 1)..n : new.buffer_[i] = DefaultVal
             /\ n < old.size_ =>
                   /\ \A i \in (n + 1)..old.size_ : new.buffer_[i] = Raw
                   /\ new.capacity_ = old.capacity_
             /\ n = old.size_ => vec' = vec]_vars

\* Resize(3) on a full Vector of one element returned: the element is
\* followed by two default-constructed ones.
C18_Witness ==
    /\ last.op = "Resize" /\ last.out = "ok"
    /\ last.n = 3 /\ last.size0 = 1 /\ last.cap0 = 1
    /\ vec[last.tgt].buffer_ = <<1, DefaultVal, DefaultVal>>

\* C19: whatever the traits of the element type, when a relocation fails in
\* Reserve, PushBack, EmplaceBack, Insert or Emplace, the blocks have not been
\* swapped and every element the Vector held is still there, at its index in
\* the old block, neither destroyed nor moved-from: the old elements are
\* destroyed and the blocks swapped only once the new block is populated.
C19_RelocationIsCommitAfterBuild ==
    [][(/\ last'.op \in {"Reserve", "PushBack", "EmplaceBack", "Insert", "Emplace"}
        /\ last'.failed = "reloc")
       => LET old == vec[last'.tgt]
              new == vec'[last'.tgt]
          IN /\ new.capacity_ = old.capacity_
             /\ new.size_ = old.size_
             /\ \A i \in 1..old.size_ :
                   new.buffer_[i] = old.buffer_[i] /\ new.buffer_[i] \notin {Raw, MovedFrom}]_vars

\* C20: no block is owned by two RawMemory objects at once, no block is given
\* to operator delete twice, and once every RawMemory object is destroyed
\* every block that was allocated has been released.
C20_BlocksFreedExactlyOnce ==
    /\ \A i, j \in Raws :
          (i # j /\ raw[i].alive /\ raw[j].alive /\ raw[i].buffer_ # 0)
             => raw[i].buffer_ # raw[j].buffer_
    /\ \A b \in 1..Len(heap) : heap[b] <= 1
    /\ (\A i \in Raws : ~raw[i].alive) => \A b \in 1..Len(heap) : heap[b] = 1

====
